---- MODULE Spec2Model ----
(***************************************************************************)
(* Model of src/index.py: the API Gateway handler proxy_request (router,   *)
(* root index, per-package index) and the maintenance handler              *)
(* reindex_bucket, over an S3 bucket with paginated listing.               *)
(*                                                                         *)
(* Strings are sequences of one-character strings, so that strip, split,   *)
(* prefix tests and the lexicographic listing order are computed.  The     *)
(* fixed parts of the two string.Template objects are single tokens of     *)
(* such a sequence.                                                        *)
(***************************************************************************)
EXTENDS Integers, Sequences, FiniteSets, TLC

\* ---------------------------------------------------------------- bounds
MaxPathLen == 5      \* longest raw request path
MaxBaseLen == 3      \* longest raw BASE_PATH environment value
PageSize == 2        \* entries per listing page (S3: MaxKeys)
NumRuns == 2         \* concurrent reindex_bucket invocations

\* ---------------------------------------------------------------- strings
\* The characters that occur, in code-point order.
Ascii == <<".", "/", "a", "b", "c", "d", "e", "h", "i", "l", "m", "n", "s",
           "t", "x", "y", "z">>

Ord(c) == CHOOSE i \in 1..Len(Ascii) : Ascii[i] = c

\* s < t in Python's (and S3's) string order
LexLess(s, t) ==
    \E i \in 1..Len(t) :
        /\ Len(s) >= i - 1
        /\ \A j \in 1..(i - 1) : s[j] = t[j]
        /\ \/ Len(s) = i - 1
           \/ Ord(s[i]) < Ord(t[i])

Strs(chars, n) == UNION {[1..k -> chars] : k \in 0..n}

RECURSIVE LStrip(_)
LStrip(s) == IF s # <<>> /\ Head(s) = "/" THEN LStrip(Tail(s)) ELSE s

RECURSIVE RStrip(_)
RStrip(s) ==
    IF s # <<>> /\ s[Len(s)] = "/" THEN RStrip(SubSeq(s, 1, Len(s) - 1)) ELSE s

\* str.strip('/')
Strip(s) == RStrip(LStrip(s))

StartsWith(s, p) == Len(s) >= Len(p) /\ SubSeq(s, 1, Len(p)) = p

\* x.split('/', 1)[-1] in place of os.path.split: all after the first '/'
OsPathSplitTail_FirstSlash(x) ==
    IF \E i \in 1..Len(x) : x[i] = "/"
    THEN SubSeq(x, 1 + CHOOSE i \in 1..Len(x) :
                        x[i] = "/" /\ \A j \in 1..(i - 1) : x[j] # "/", Len(x))
    ELSE x

\* os.path.split(x)[-1]: everything after the last '/'
RECURSIVE OsPathSplitTail(_)
OsPathSplitTail(x) ==
    IF x = <<>> \/ x[Len(x)] = "/" THEN <<>>
    ELSE OsPathSplitTail(SubSeq(x, 1, Len(x) - 1)) \o <<x[Len(x)]>>

\* bytes of the store: str.encode() / bytes.decode() on the characters used
Encode(s) == [i \in DOMAIN s |-> <<"byte", s[i]>>]
Decode(b) == [i \in DOMAIN b |-> b[i][2]]

\* ---------------------------------------------------------------- templates
AnchorOpen == "<a href=\""
AnchorMid == "\">"
AnchorClose == "</a><br>"
IndexOpen == "<!DOCTYPE html><html><head><title>"
IndexMid == "</title></head><body><h1>"
IndexHead == "</h1>"
IndexClose == "</body></html>"

\* ANCHOR.safe_substitute(href=..., name=...)
ANCHOR(href, name) ==
    <<AnchorOpen>> \o href \o <<AnchorMid>> \o name \o <<AnchorClose>>

\* INDEX.safe_substitute(title=..., anchors=...)
INDEX(title, anchors) ==
    <<IndexOpen>> \o title \o <<IndexMid>> \o title \o <<IndexHead>>
        \o anchors \o <<IndexClose>>

\* ''.join(...)
RECURSIVE Join(_)
Join(ss) == IF ss = <<>> THEN <<>> ELSE Head(ss) \o Join(Tail(ss))

\* ---------------------------------------------------------------- store
\* The fixed cache key 'index.html'
IndexKey == <<"i", "n", "d", "e", "x", ".", "h", "t", "m", "l">>

Min(a, b) == IF a < b THEN a ELSE b

\* position of the first '/' of k after its first n characters, 0 if none
FirstSlashAfter(k, n) ==
    IF \E i \in (n + 1)..Len(k) : k[i] = "/"
    THEN CHOOSE i \in (n + 1)..Len(k) :
             k[i] = "/" /\ \A j \in (n + 1)..(i - 1) : k[j] # "/"
    ELSE 0

\* what a key is listed as: itself, or (Delimiter='/') the common prefix that
\* ends at the first delimiter after Prefix
EntryOf(k, prefix, delimited) ==
    LET i == FirstSlashAfter(k, Len(prefix)) IN
    IF delimited /\ i # 0
    THEN [name |-> SubSeq(k, 1, i), isPrefix |-> TRUE]
    ELSE [name |-> k, isPrefix |-> FALSE]

RECURSIVE SortEntries(_)
SortEntries(S) ==
    IF S = {} THEN <<>>
    ELSE LET m == CHOOSE x \in S : \A y \in S \ {x} : LexLess(x.name, y.name)
         IN <<m>> \o SortEntries(S \ {m})

\* One response of list_objects(Prefix, Delimiter, Marker): the next PageSize
\* entries after Marker in key order.  'Contents' and 'CommonPrefixes' are
\* present only when not empty, 'NextMarker' only on a truncated page.
ListObjects(keys, prefix, delimited, marker) ==
    LET all == {EntryOf(k, prefix, delimited) :
                    k \in {k \in keys : StartsWith(k, prefix)}}
        rest == SortEntries({e \in all : LexLess(marker, e.name)})
        page == SubSeq(rest, 1, Min(PageSize, Len(rest)))
        ks == SelectSeq(page, LAMBDA e : ~e.isPrefix)
        ps == SelectSeq(page, LAMBDA e : e.isPrefix)
        truncated == Len(rest) > PageSize
        fields == {"IsTruncated"}
                    \cup (IF ks # <<>> THEN {"Contents"} ELSE {})
                    \cup (IF ps # <<>> THEN {"CommonPrefixes"} ELSE {})
                    \cup (IF truncated THEN {"NextMarker"} ELSE {})
    IN [f \in fields |->
            CASE f = "IsTruncated" -> truncated
              [] f = "Contents" -> [i \in 1..Len(ks) |-> [Key |-> ks[i].name]]
              [] f = "CommonPrefixes" ->
                     [i \in 1..Len(ps) |-> [Prefix |-> ps[i].name]]
              [] f = "NextMarker" -> page[Len(page)].name]

\* a put_object that leaves the object short of its last part
PutObject_Partial(b, key, body) ==
    [k \in DOMAIN b \cup {key} |->
        IF k = key THEN SubSeq(body, 1, Len(body) - 1) ELSE b[k]]

\* put_object(Key=key, Body=body): the object is replaced as a whole
PutObject(b, key, body) ==
    [k \in DOMAIN b \cup {key} |-> IF k = key THEN body ELSE b[k]]

\* generate_presigned_url('get_object', ExpiresIn=ttl, Params={'Key': key})
S3_PRESIGNED_URL_TTL == 900

GeneratePresignedUrl(key, ttl) ==
    <<"https://s3/">> \o key \o <<"?X-Amz-Expires=" \o ToString(ttl)>>

presign(key) == GeneratePresignedUrl(key, S3_PRESIGNED_URL_TTL)

\* ---------------------------------------------------------------- responses
\* proxy_reponse without the charset parameter
proxy_reponse_NoCharset(body, content_type) ==
    LET ct == IF content_type = "" THEN "text/html" ELSE content_type IN
    [body |-> body, headers |-> ("Content-Type" :> ct), statusCode |-> 200]

\* proxy_reponse(body, content_type=None)
proxy_reponse(body, content_type) ==
    LET ct == IF content_type = "" THEN "text/html" ELSE content_type IN
    [body |-> body,
     headers |-> ("Content-Type" :> (ct \o "; charset=UTF-8")),
     statusCode |-> 200]

redirect(path) == [statusCode |-> 301, headers |-> ("Location" :> path)]

reject(status_code) == [statusCode |-> status_code]

\* an exception that leaves the handler
Raised == [raised |-> TRUE]

\* ---------------------------------------------------------------- router
\* One atom of the pattern built from BASE_PATH: the value is interpolated
\* unescaped, so '.' is the regex wildcard; the other characters used here
\* ('/', letters) are literals.
AtomMatches(p, c) == IF p = "." THEN TRUE ELSE p = c

\* re.match(f'^{BASE_PATH}/([^/]+)$', path): the atoms of BASE_PATH each
\* consume one character, then '/', then one or more non-'/' to the end.
ReMatch(base, path) ==
    LET n == Len(base) IN
    IF /\ Len(path) >= n + 2
       /\ \A i \in 1..n : AtomMatches(base[i], path[i])
       /\ path[n + 1] = "/"
       /\ \A j \in (n + 2)..Len(path) : path[j] # "/"
    THEN [matched |-> TRUE, group |-> SubSeq(path, n + 2, Len(path))]
    ELSE [matched |-> FALSE, group |-> <<>>]

\* get_response comparing the stripped path with '/' for the redirect
get_response_SlashRoot(base, path) ==
    LET m == ReMatch(base, path) IN
    IF m.matched /\ m.group # <<>> THEN "package"
    ELSE IF base = path THEN "index"
    ELSE IF <<"/">> = path THEN "redirect"
    ELSE "reject"

\* the branch get_response takes
get_response(base, path) ==
    LET m == ReMatch(base, path) IN
    IF m.matched /\ m.group # <<>> THEN "package"
    ELSE IF base = path THEN "index"
    ELSE IF <<>> = path THEN "redirect"
    ELSE "reject"

\* ---------------------------------------------------------------- state
VARIABLES
    BASE_PATH,    \* os.getenv('BASE_PATH', '').strip('/'), fixed at start
    bucket,       \* the S3 bucket: key -> stored bytes
    req,          \* the proxy_request invocation in progress, and its response
    run,          \* the reindex_bucket invocations
    lastPut,      \* history: the put_object applied last, and what its run listed
    untriggered   \* history: uploads that no reindex run was started for yet

vars == <<BASE_PATH, bucket, req, run, lastPut, untriggered>>

PathChars == {".", "/", "a"}
Methods == {"GET", "HEAD", "POST"}
RunIds == 1..NumRuns

\* raw values of the BASE_PATH environment variable / of event['path']
RawBases == Strs(PathChars, MaxBaseLen)
RawPaths == Strs(PathChars, MaxPathLen)

Str_a_x == <<"a", "/", "x">>
Str_a_y == <<"a", "/", "y">>
Str_a_s_z == <<"a", "/", "s", "/", "z">>
Str_x_x == <<"x", "/", "x">>

\* the artifacts that get uploaded, as {packageName}/{artifactFileName}
Artifacts == {Str_a_x, Str_a_y, Str_a_s_z, Str_x_x}

EmptyBucket == [k \in {} |-> <<>>]

IdleReq ==
    [pc |-> "idle", method |-> "", path |-> <<>>, branch |-> "", name |-> <<>>,
     marker |-> <<>>, keys |-> <<>>, listed |-> <<>>, calls |-> 0,
     res |-> [none |-> TRUE]]

IdleRun ==
    [pc |-> "idle", marker |-> <<>>, pkgs |-> <<>>, prefixes |-> <<>>,
     err |-> ""]

NoPut == [done |-> FALSE, body |-> <<>>, prefixes |-> <<>>, marker |-> <<>>]

\* ---------------------------------------------------------------- requests
\* get_index(): one get_object, which raises when the key is missing
\* (or, ok = FALSE, when the store fails)
get_index(b, ok) ==
    IF ok /\ IndexKey \in DOMAIN b
    THEN proxy_reponse(Decode(b[IndexKey]), "")
    ELSE Raised

\* proxy_request up to its first store call: the method check, get_response,
\* and the branches that need at most one store call.
ProxyRequest(method, rawPath, ok) ==
    LET path == Strip(rawPath)
        branch == IF method \in {"GET", "HEAD"}
                  THEN get_response(BASE_PATH, path) ELSE "reject"
        started == [IdleReq EXCEPT !.method = method, !.path = path,
                                   !.branch = branch]
    IN /\ req.pc = "idle"
       /\ req' =
            IF branch = "package"
            THEN [started EXCEPT !.pc = "listing",
                                 !.name = ReMatch(BASE_PATH, path).group]
            ELSE IF branch = "index"
            THEN [started EXCEPT !.pc = "done", !.calls = 1,
                                 !.res = get_index(bucket, ok)]
            ELSE IF branch = "redirect"
            THEN [started EXCEPT !.pc = "done",
                                 !.res = redirect(<<"/">> \o BASE_PATH)]
            ELSE [started EXCEPT !.pc = "done", !.res = reject(403)]
       /\ UNCHANGED <<BASE_PATH, bucket, run, lastPut, untriggered>>

\* proxy_request returns its response; the next event can be handled
Return ==
    /\ req.pc = "done"
    /\ req' = IdleReq
    /\ UNCHANGED <<BASE_PATH, bucket, run, lastPut, untriggered>>

\* page.get('Contents') or []
PageContents(page) ==
    IF "Contents" \in DOMAIN page THEN page.Contents ELSE <<>>

\* the paginator's next Marker: NextMarker, else the last key of the page
NextToken(page) ==
    IF "NextMarker" \in DOMAIN page THEN page.NextMarker
    ELSE page.Contents[Len(page.Contents)].Key

\* get_package_index after the listing: presign, names, anchors, page
PackageIndexBody(name, keys) ==
    LET hrefs == [i \in 1..Len(keys) |-> presign(keys[i])]
        names == [i \in 1..Len(keys) |-> OsPathSplitTail(keys[i])]
        anchors == [i \in 1..Len(keys) |-> ANCHOR(hrefs[i], names[i])]
    IN INDEX(<<"Links for ">> \o name, Join(anchors))

\* get_package_index: one page of paginate(Prefix=f'{name}/'); after the last
\* page the response is built.
PackageListPage ==
    /\ req.pc = "listing"
    /\ LET page == ListObjects(DOMAIN bucket, req.name \o <<"/">>, FALSE,
                               req.marker)
           got == [i \in 1..Len(PageContents(page)) |->
                        PageContents(page)[i].Key]
           keys == req.keys \o got
           listed == req.listed \o
                       (IF "Contents" \in DOMAIN page
                        THEN [i \in 1..Len(page.Contents) |->
                                  page.Contents[i].Key]
                        ELSE <<>>)
       IN req' =
            IF page.IsTruncated
            THEN [req EXCEPT !.marker = NextToken(page), !.keys = keys,
                             !.listed = listed, !.calls = @ + 1]
            ELSE [req EXCEPT !.pc = "done", !.keys = keys,
                             !.listed = listed, !.calls = @ + 1,
                             !.res = proxy_reponse(
                                         PackageIndexBody(req.name, keys), "")]
    /\ UNCHANGED <<BASE_PATH, bucket, run, lastPut, untriggered>>

\* a listing call of get_package_index fails: the exception leaves the handler
PackageListFail ==
    /\ req.pc = "listing"
    /\ req' = [req EXCEPT !.pc = "done", !.calls = @ + 1, !.res = Raised]
    /\ UNCHANGED <<BASE_PATH, bucket, run, lastPut, untriggered>>

\* ---------------------------------------------------------------- reindex
\* a package artifact is uploaded to the bucket (outside this program)
Upload(key) ==
    /\ key \notin DOMAIN bucket
    /\ bucket' = PutObject(bucket, key, <<>>)
    /\ untriggered' = 1
    /\ UNCHANGED <<BASE_PATH, req, run, lastPut>>

\* reindex_bucket is invoked
StartReindex(r) ==
    /\ run[r].pc \in {"idle", "done", "raised"}
    /\ run' = [run EXCEPT ![r] = [IdleRun EXCEPT !.pc = "listing"]]
    /\ untriggered' = 0
    /\ UNCHANGED <<BASE_PATH, bucket, req, lastPut>>

\* the prefixes taken as package names without strip('/')
PagePkgs_NoStrip(page) ==
    [i \in 1..Len(page.CommonPrefixes) |-> page.CommonPrefixes[i].Prefix]

\* x.get('Prefix').strip('/') for x in page.get('CommonPrefixes')
PagePkgs(page) ==
    [i \in 1..Len(page.CommonPrefixes) |-> Strip(page.CommonPrefixes[i].Prefix)]

\* the generator pulls one page of paginate(Delimiter='/'); iterating a page
\* without 'CommonPrefixes' raises TypeError
ReindexListPage(r) ==
    /\ run[r].pc = "listing"
    /\ LET page == ListObjects(DOMAIN bucket, <<>>, TRUE, run[r].marker) IN
       run' = [run EXCEPT ![r] =
            IF "CommonPrefixes" \notin DOMAIN page
            THEN [IdleRun EXCEPT !.pc = "raised", !.err = "TypeError"]
            ELSE [@ EXCEPT
                    !.pc = IF page.IsTruncated THEN "listing" ELSE "put",
                    !.marker = IF page.IsTruncated THEN NextToken(page) ELSE @,
                    !.pkgs = @ \o PagePkgs(page),
                    !.prefixes = @ \o [i \in 1..Len(page.CommonPrefixes) |->
                                          page.CommonPrefixes[i].Prefix]]]
    /\ UNCHANGED <<BASE_PATH, bucket, req, lastPut, untriggered>>

\* a listing call of reindex_bucket fails
ReindexListFail(r) ==
    /\ run[r].pc = "listing"
    /\ run' = [run EXCEPT ![r] =
                  [IdleRun EXCEPT !.pc = "raised", !.err = "ClientError"]]
    /\ UNCHANGED <<BASE_PATH, bucket, req, lastPut, untriggered>>

\* the rendering losing the first package name
RootIndexBody_SkipFirst(pkgs) ==
    INDEX(<<"Simple index">>,
          Join([i \in 1..(Len(pkgs) - 1) |-> ANCHOR(pkgs[i + 1], pkgs[i + 1])]))

\* the document reindex_bucket renders from its package names
RootIndexBody(pkgs) ==
    INDEX(<<"Simple index">>,
          Join([i \in 1..Len(pkgs) |-> ANCHOR(pkgs[i], pkgs[i])]))

\* S3.put_object(Key='index.html', Body=body.encode())
ReindexPut(r) ==
    /\ run[r].pc = "put"
    /\ bucket' = PutObject(bucket, IndexKey, Encode(RootIndexBody(run[r].pkgs)))
    /\ lastPut' = [done |-> TRUE, body |-> RootIndexBody(run[r].pkgs),
                    prefixes |-> run[r].prefixes, marker |-> run[r].marker]
    /\ run' = [run EXCEPT ![r] = [IdleRun EXCEPT !.pc = "done"]]
    /\ UNCHANGED <<BASE_PATH, req, untriggered>>

\* a failing put_object that leaves an empty object behind
ReindexPutFail_Truncates(r) ==
    /\ run[r].pc = "put"
    /\ bucket' = PutObject(bucket, IndexKey, <<>>)
    /\ run' = [run EXCEPT ![r] =
                  [IdleRun EXCEPT !.pc = "raised", !.err = "ClientError"]]
    /\ UNCHANGED <<BASE_PATH, req, lastPut, untriggered>>

\* put_object fails: nothing is written
ReindexPutFail(r) ==
    /\ run[r].pc = "put"
    /\ run' = [run EXCEPT ![r] =
                  [IdleRun EXCEPT !.pc = "raised", !.err = "ClientError"]]
    /\ UNCHANGED <<BASE_PATH, bucket, req, lastPut, untriggered>>

\* ---------------------------------------------------------------- specs
\* the root requests sent while reindex runs and uploads are going on
RootPaths == {<<"/">>, <<"/">> \o BASE_PATH \o <<"/">>}

\* the package requests sent while uploads are going on
PackagePaths ==
    {<<"/">> \o BASE_PATH \o <<"/", "a">>,
     <<"/">> \o BASE_PATH \o <<"/", "a", "/">>,
     <<"/">> \o BASE_PATH \o <<"/", "s">>}

Init ==
    /\ BASE_PATH \in {<<>>, <<"a">>}
    /\ bucket = EmptyBucket
    /\ req = IdleReq
    /\ run = [r \in RunIds |-> IdleRun]
    /\ lastPut = NoPut
    /\ untriggered = 0

\* reindex runs, uploads and root requests, interleaved at the store calls
Next ==
    \/ \E m \in {"GET", "POST"}, p \in RootPaths, ok \in BOOLEAN :
           ProxyRequest(m, p, ok)
    \/ Return
    \/ \E k \in Artifacts \ {Str_a_y} : Upload(k)
    \/ \E r \in RunIds : StartReindex(r)
    \/ \E r \in RunIds : ReindexListPage(r)
    \/ \E r \in RunIds : ReindexListFail(r)
    \/ \E r \in RunIds : ReindexPut(r)
    \/ \E r \in RunIds : ReindexPutFail(r)

Spec == Init /\ [][Next]_vars

\* a bucket that uploads and one reindex run have filled
FilledBucket ==
    PutObject([k \in {Str_a_x, Str_a_y, Str_a_s_z} |-> <<>>], IndexKey,
              Encode(RootIndexBody(<< <<"a">> >>)))

\* the router on every method, path and BASE_PATH
InitRoute ==
    /\ BASE_PATH \in {Strip(b) : b \in RawBases}
    /\ bucket = FilledBucket
    /\ req = IdleReq
    /\ run = [r \in RunIds |-> IdleRun]
    /\ lastPut = NoPut
    /\ untriggered = 0

NextRoute ==
    \/ \E m \in Methods, p \in RawPaths : ProxyRequest(m, p, TRUE)
    \/ PackageListPage
    \/ PackageListFail
    \/ Return

SpecRoute == InitRoute /\ [][NextRoute]_vars

\* package requests, their listing pages interleaved with uploads
InitPackage ==
    /\ BASE_PATH \in {<<"a">>, <<".">>, <<"a", "/", "a">>}
    /\ bucket = EmptyBucket
    /\ req = IdleReq
    /\ run = [r \in RunIds |-> IdleRun]
    /\ lastPut = NoPut
    /\ untriggered = 0

NextPackage ==
    \/ \E m \in {"GET", "HEAD"}, p \in PackagePaths :
           ProxyRequest(m, p, TRUE)
    \/ PackageListPage
    \/ PackageListFail
    \/ Return
    \/ \E k \in Artifacts : Upload(k)

SpecPackage == InitPackage /\ [][NextPackage]_vars

\* ---------------------------------------------------------------- reading
\* first position of token t in doc, 0 if none
FirstIndex(doc, t) ==
    IF \E i \in 1..Len(doc) : doc[i] = t
    THEN CHOOSE i \in 1..Len(doc) : doc[i] = t /\ \A j \in 1..(i - 1) : doc[j] # t
    ELSE 0

\* the anchors of a document, read back from its text
RECURSIVE ParseAnchors(_)
ParseAnchors(doc) ==
    LET i == FirstIndex(doc, AnchorOpen)
        j == FirstIndex(doc, AnchorMid)
        k == FirstIndex(doc, AnchorClose)
    IN IF i = 0 \/ j < i \/ k < j THEN <<>>
       ELSE <<[href |-> SubSeq(doc, i + 1, j - 1),
               name |-> SubSeq(doc, j + 1, k - 1)]>>
                \o ParseAnchors(SubSeq(doc, k + 1, Len(doc)))

\* a whole document: doctype to </html>, with its title and heading
WholeDocument(doc) ==
    /\ Len(doc) >= 5
    /\ doc[1] = IndexOpen
    /\ doc[Len(doc)] = IndexClose
    /\ FirstIndex(doc, IndexMid) # 0
    /\ FirstIndex(doc, IndexHead) > FirstIndex(doc, IndexMid)

DocTitle(doc) == SubSeq(doc, 2, FirstIndex(doc, IndexMid) - 1)

DropLast(s) == SubSeq(s, 1, Len(s) - 1)

LastSlash(k) ==
    IF \E i \in 1..Len(k) : k[i] = "/"
    THEN CHOOSE i \in 1..Len(k) :
             k[i] = "/" /\ \A j \in (i + 1)..Len(k) : k[j] # "/"
    ELSE 0

LastSegment(k) == SubSeq(k, LastSlash(k) + 1, Len(k))

NoSlash(s) == \A i \in 1..Len(s) : s[i] # "/"

\* path is base, a separator and exactly one non-empty segment (with an
\* empty base: one non-empty segment)
BasePlusSegment(base, path) ==
    IF base = <<>> THEN path # <<>> /\ NoSlash(path)
    ELSE /\ Len(path) >= Len(base) + 2
         /\ StartsWith(path, base \o <<"/">>)
         /\ NoSlash(SubSeq(path, Len(base) + 2, Len(path)))

SegmentAfter(base, path) ==
    IF base = <<>> THEN path ELSE SubSeq(path, Len(base) + 2, Len(path))

GetOrHead == req.method \in {"GET", "HEAD"}

Status(res) == IF "statusCode" \in DOMAIN res THEN res.statusCode ELSE 0

\* the first path segments of the artifacts in the bucket
StorePackages(b) ==
    {SubSeq(k, 1, FirstSlashAfter(k, 0) - 1) :
        k \in {k \in DOMAIN b : FirstSlashAfter(k, 0) # 0}}

AnchorNames(doc) ==
    LET as == ParseAnchors(doc) IN {as[i].name : i \in 1..Len(as)}

RunsFinished == \A r \in RunIds : run[r].pc \notin {"listing", "put"}

\* ---------------------------------------------------------------- router claims
\* C1, as stated: for every BASE_PATH, the empty one included, a GET or HEAD
\* request whose normalized path is empty is answered 301 with Location
\* '/' + BASE_PATH and no body.
C1_RootRedirectsForEveryBase ==
    (req.pc = "done" /\ GetOrHead /\ req.path = <<>>)
        => req.res = [statusCode |-> 301,
                      headers |-> ("Location" :> (<<"/">> \o BASE_PATH))]

\* C1, amended: with a non-empty BASE_PATH the request is answered 301 with
\* Location '/' + BASE_PATH and no body; with an empty BASE_PATH it is served
\* as the root index (200 with the stored document, or get_object raises).
C1_RootRedirects ==
    (req.pc = "done" /\ GetOrHead /\ req.path = <<>>)
        => IF BASE_PATH # <<>>
           THEN req.res = [statusCode |-> 301,
                           headers |-> ("Location" :> (<<"/">> \o BASE_PATH))]
           ELSE \/ req.res = Raised
                \/ /\ Status(req.res) = 200
                   /\ IndexKey \in DOMAIN bucket
                   /\ req.res.body = Decode(bucket[IndexKey])

C1_Witness ==
    /\ req.pc = "done"
    /\ req.method = "HEAD"
    /\ req.path = <<>>
    /\ BASE_PATH = <<"a", "/", "a">>
    /\ Status(req.res) = 301

\* C2: for every BASE_PATH, the empty one included, a GET or HEAD request
\* whose normalized path is BASE_PATH, a separator and exactly one non-empty
\* segment is dispatched to get_package_index with that segment as the name,
\* and answered 200 unless the store fails.
C2_PackageDispatch ==
    (req.pc # "idle" /\ GetOrHead /\ BasePlusSegment(BASE_PATH, req.path))
        => /\ req.branch = "package"
           /\ req.name = SegmentAfter(BASE_PATH, req.path)
           /\ req.pc = "done" => (req.res = Raised \/ Status(req.res) = 200)

\* C3: a request whose method is not GET or HEAD, or whose normalized path is
\* neither empty, nor BASE_PATH, nor BASE_PATH plus one segment, is answered
\* 403 with no body and no headers, and no store call is made for it.
Malformed ==
    \/ ~GetOrHead
    \/ /\ req.path # <<>>
       /\ req.path # BASE_PATH
       /\ ~BasePlusSegment(BASE_PATH, req.path)

C3_MalformedRejected ==
    (req.pc # "idle" /\ Malformed)
        => /\ req.pc = "done"
           /\ req.res = [statusCode |-> 403]
           /\ req.calls = 0

\* ---------------------------------------------------------------- index claims
\* a root-index request has just been answered
RootIndexAnswered ==
    /\ req.pc = "idle"
    /\ req'.pc = "done"
    /\ req'.method \in {"GET", "HEAD"}
    /\ req'.path = BASE_PATH

\* C4: a GET or HEAD request whose normalized path equals BASE_PATH is
\* answered 200 with Content-Type 'text/html; charset=UTF-8' and the content
\* stored under 'index.html' at the moment of the read; only a failing
\* get_object (the key missing, or a store error) raises instead.
C4_RootIndexServed ==
    [][RootIndexAnswered =>
        IF req'.res = Raised THEN req'.calls = 1
        ELSE /\ IndexKey \in DOMAIN bucket
             /\ DOMAIN req'.res = {"statusCode", "headers", "body"}
             /\ req'.res.statusCode = 200
             /\ req'.res.headers = ("Content-Type" :> "text/html; charset=UTF-8")
             /\ Encode(req'.res.body) = bucket[IndexKey]
             /\ req'.calls = 1]_vars

C4_Witness ==
    /\ req.pc = "done"
    /\ req.method = "GET"
    /\ req.path = BASE_PATH
    /\ Status(req.res) = 200
    /\ Len(ParseAnchors(req.res.body)) = 2

\* the anchors the claim expects for the listed keys K
ExpectedLinks(K) ==
    [i \in 1..Len(K) |-> [href |-> presign(K[i]), name |-> LastSegment(K[i])]]

\* C5: get_package_index(p) answers 200 with exactly one anchor per key the
\* store listed under p + '/', over all pages and in listing order, with
\* href = presign(key) and name = the key's last path segment; with no key
\* listed it answers 200 with zero anchors.
C5_PackageIndex ==
    (req.pc = "done" /\ req.branch = "package" /\ req.res # Raised)
        => /\ Status(req.res) = 200
           /\ WholeDocument(req.res.body)
           /\ DocTitle(req.res.body) = <<"Links for ">> \o req.name
           /\ ParseAnchors(req.res.body) = ExpectedLinks(req.listed)
           /\ \A i \in 1..Len(req.listed) :
                  StartsWith(req.listed[i], req.name \o <<"/">>)

C5_Witness ==
    /\ req.pc = "done"
    /\ req.branch = "package"
    /\ Status(req.res) = 200
    /\ req.listed = <<Str_a_s_z, Str_a_x, Str_a_y>>
    /\ req.calls = 2

\* C6: a completed reindex_bucket run leaves under 'index.html' a document
\* titled 'Simple index' with exactly one anchor per common prefix the
\* listing returned, over all pages and in listing order, each with
\* href = name = the prefix without its trailing separator, replacing what
\* was stored before.
ExpectedPackages(P) ==
    [i \in 1..Len(P) |-> [href |-> DropLast(P[i]), name |-> DropLast(P[i])]]

C6_ReindexWrites ==
    [][\A r \in RunIds :
        (run[r].pc = "put" /\ run'[r].pc = "done")
            => /\ IndexKey \in DOMAIN bucket'
               /\ LET doc == Decode(bucket'[IndexKey]) IN
                  /\ WholeDocument(doc)
                  /\ DocTitle(doc) = <<"Simple index">>
                  /\ ParseAnchors(doc) = ExpectedPackages(run[r].prefixes)]_vars

C6_Witness ==
    /\ lastPut.done
    /\ lastPut.prefixes = << <<"a", "/">>, <<"x", "/">> >>
    /\ lastPut.marker # <<>>
    /\ bucket[IndexKey] = Encode(lastPut.body)

\* C7: with objects replaced atomically, the body of a root-index response
\* is the whole document of the put_object applied last before the read,
\* never part of one, and the cached object always holds the document of the
\* write applied last, in particular once all runs have finished.
C7_WholeDocuments ==
    /\ [][(RootIndexAnswered /\ req'.res # Raised)
            => /\ lastPut.done
               /\ req'.res.body = lastPut.body
               /\ WholeDocument(req'.res.body)]_vars
    /\ [](IF lastPut.done
          THEN /\ IndexKey \in DOMAIN bucket
               /\ bucket[IndexKey] = Encode(lastPut.body)
          ELSE IndexKey \notin DOMAIN bucket)

\* a reader holds the older document while a later write has been applied
C7_Witness ==
    /\ req.pc = "done"
    /\ req.branch = "index"
    /\ Status(req.res) = 200
    /\ lastPut.done
    /\ req.res.body # lastPut.body
    /\ RunsFinished

IndexObject(b) == IF IndexKey \in DOMAIN b THEN <<b[IndexKey]>> ELSE <<>>

\* C8: the content under 'index.html' changes only in the put_object step of
\* a reindex run: no step of a request changes the bucket, and a run that
\* raises leaves the cached document as it was.
C8_OnlyReindexWrites ==
    [][/\ IndexObject(bucket') # IndexObject(bucket)
            => \E r \in RunIds : run[r].pc = "put" /\ run'[r].pc = "done"
       /\ req' # req => bucket' = bucket
       /\ \A r \in RunIds :
            (run'[r].pc = "raised" /\ run[r].pc # "raised")
                => IndexObject(bucket') = IndexObject(bucket)]_vars

C8_Witness ==
    /\ lastPut.done
    /\ bucket[IndexKey] = Encode(lastPut.body)
    /\ \E r \in RunIds : run[r].pc = "raised" /\ run[r].err = "ClientError"
    /\ req.pc = "done"
    /\ req.method = "POST"

\* C9: reindex_bucket raises only when a store call fails: a listing page
\* without CommonPrefixes (an empty bucket, a page of plain keys) does not
\* make it raise.
C9_ReindexToleratesNoPrefixes ==
    \A r \in RunIds : run[r].err # "TypeError"

\* C10, as stated: when a run was started after each upload and every started
\* run has finished (none raised), the cached root index lists exactly the
\* package prefixes present in the bucket.
C10_FinalIndexCurrent ==
    (/\ untriggered = 0
     /\ lastPut.done
     /\ \A r \in RunIds : run[r].pc \in {"idle", "done"})
        => AnchorNames(Decode(bucket[IndexKey])) = StorePackages(bucket)

\* C10, amended: once every started run has finished, the cached root index
\* lists exactly the package prefixes that the run whose write was applied
\* last found in its own listing (which can be older than the bucket's
\* content).
C10_FinalIndexOfLastWriter ==
    (RunsFinished /\ lastPut.done)
        => ParseAnchors(Decode(bucket[IndexKey]))
             = ExpectedPackages(lastPut.prefixes)

\* all runs finished, one started after each upload, and the index is stale
C10_Witness ==
    /\ untriggered = 0
    /\ lastPut.done
    /\ \A r \in RunIds : run[r].pc = "done"
    /\ AnchorNames(Decode(bucket[IndexKey])) = {<<"a">>}
    /\ StorePackages(bucket) = {<<"a">>, <<"x">>}

====
